---- MODULE Spec2Model ----
(***************************************************************************)
(* Model of the FLX local-impact calculator (local_impact_calculator.py)   *)
(* and of the dashboard shell that drives it (dashboard_app.py).           *)
(*                                                                         *)
(* Python numbers are modelled as tagged exact rationals                   *)
(*   [t |-> "int" | "float", n |-> numerator, d |-> denominator > 0]       *)
(* kept in lowest terms; a value that is not a number carries the tag      *)
(* "str".  Arithmetic is exact: the last-bit rounding of IEEE doubles is   *)
(* not represented.                                                        *)
(***************************************************************************)
EXTENDS Integers, Sequences, FiniteSets, TLC

VARIABLES
    pc,          \* position of the driver of the current specification
    call,        \* arguments of a direct call of a calculator function
    ret,         \* what that call returned
    given,       \* arguments handed to the RetailerInputs constructor
    inputs,      \* the RetailerInputs instance, once constructed
    raised,      \* the exception the constructor raised
    summaries,   \* the dicts returned by successive summarize_retailer calls
    metrics,     \* calculate_metrics(inputs) in the record specification,
                 \* the list built by main() in the shell specification
    widgets,     \* shell: the values the sidebar widgets hold, per retailer
    custom_names_raw, \* shell: contents of the custom competitors text input
    retailer_inputs   \* shell: the list main() builds

vars == <<pc, call, ret, given, inputs, raised, summaries, metrics,
          widgets, custom_names_raw, retailer_inputs>>

(***************************************************************************)
(* Bounds of the model.                                                    *)
(***************************************************************************)
MaxSalesSteps == 2
MaxCalls == 2
MaxRawLen == 3

(***************************************************************************)
(* Numbers.                                                                *)
(***************************************************************************)
RECURSIVE GCD(_, _)
GCD(a, b) == IF b = 0 THEN a ELSE GCD(b, a % b)

Abs(x) == IF x < 0 THEN -x ELSE x

Norm(t, n, d) ==
    LET g == GCD(Abs(n), d)
    IN  [t |-> t, n |-> n \div g, d |-> d \div g]

PyFloat(n, d) == Norm("float", n, d)

PyInt(n) == [t |-> "int", n |-> n, d |-> 1]

NotANumber == [t |-> "str", n |-> 0, d |-> 1]

\* isinstance(value, (int, float))
IsNumeric(v) == v.t \in {"int", "float"}

\* float(x)
ToFloat(x) == [x EXCEPT !.t = "float"]

\* Python comparisons between numbers compare their values, not their types.
Lt(a, b) == a.n * b.d < b.n * a.d
Le(a, b) == a.n * b.d <= b.n * a.d
Eq(a, b) == a.n * b.d = b.n * a.d

Zero == PyFloat(0, 1)
One == PyFloat(1, 1)
Half == PyFloat(1, 2)

Sub(a, b) == PyFloat(a.n * b.d - b.n * a.d, a.d * b.d)
Mul(a, b) == PyFloat(a.n * b.n, a.d * b.d)

\* max(a, b): Python returns the first argument unless the second is greater.
Max2(a, b) == IF Lt(a, b) THEN b ELSE a

Returned(v) == [raised |-> "none", v |-> v]
Raises(e) == [raised |-> e, v |-> NotANumber]

\* a / b with b a number: ZeroDivisionError when b is zero.
TrueDiv(a, b) ==
    IF b.n = 0 THEN Raises("ZeroDivisionError")
    ELSE Returned(IF b.n > 0 THEN PyFloat(a.n * b.d, a.d * b.n)
                  ELSE PyFloat(-(a.n * b.d), a.d * (-b.n)))

RECURSIVE Pow10(_)
Pow10(k) == IF k = 0 THEN 1 ELSE 10 * Pow10(k - 1)

\* <<q, r>> with q = floor(x * 10^k) and r the remainder over d, where
\* x = q0 + r0 / d: long division, one decimal digit at a time.
RECURSIVE ShiftDigits(_, _, _, _)
ShiftDigits(q, r, d, k) ==
    IF k = 0 THEN <<q, r>>
    ELSE ShiftDigits(q * 10 + ((r * 10) \div d), (r * 10) % d, d, k - 1)

\* round(x, k): an int is returned unchanged, a float is rounded to k
\* decimal places, a tie going to the even neighbour.
Round(x, k) ==
    IF x.t = "int" THEN x
    ELSE LET q0 == x.n \div x.d
             s == ShiftDigits(q0, x.n - q0 * x.d, x.d, k)
             f == s[1]
             r == s[2]
             up == (2 * r > x.d) \/ (2 * r = x.d /\ f % 2 = 1)
         IN  PyFloat(IF up THEN f + 1 ELSE f, Pow10(k))

(***************************************************************************)
(* Calculation engine.                                                     *)
(***************************************************************************)
\* A base that subtracts the taxes in full.
retail_impact_base_full_taxes(total_sales, taxes, shipping) ==
    Sub(Sub(ToFloat(total_sales), ToFloat(taxes)), ToFloat(shipping))

retail_impact_base(total_sales, taxes, shipping) ==
    Sub(Sub(ToFloat(total_sales), Mul(Half, ToFloat(taxes))), ToFloat(shipping))

\* The dollar figure as the module docstring writes it, without the clamp.
local_impact_dollars_noclamp(total_sales, taxes, shipping, local_rate, multiplier) ==
    Mul(Mul(retail_impact_base(total_sales, taxes, shipping),
            ToFloat(local_rate)), ToFloat(multiplier))

local_impact_dollars(total_sales, taxes, shipping, local_rate, multiplier) ==
    LET base == retail_impact_base(total_sales, taxes, shipping)
    IN  Mul(Mul(Max2(Zero, base), ToFloat(local_rate)), ToFloat(multiplier))

\* A share computed from the unclamped base.
local_impact_share_unclamped(total_sales, taxes, shipping, local_rate, multiplier) ==
    IF Le(ToFloat(total_sales), Zero) THEN Returned(Zero)
    ELSE TrueDiv(Mul(Mul(retail_impact_base(total_sales, taxes, shipping),
                         ToFloat(local_rate)), ToFloat(multiplier)),
                 ToFloat(total_sales))

\* A share whose guard lets zero sales through to the division.
local_impact_share_strict_guard(total_sales, taxes, shipping, local_rate, multiplier) ==
    IF Lt(ToFloat(total_sales), Zero) THEN Returned(Zero)
    ELSE TrueDiv(local_impact_dollars(total_sales, taxes, shipping,
                                      local_rate, multiplier),
                 ToFloat(total_sales))

local_impact_share(total_sales, taxes, shipping, local_rate, multiplier) ==
    IF Le(ToFloat(total_sales), Zero) THEN Returned(Zero)
    ELSE TrueDiv(local_impact_dollars(total_sales, taxes, shipping,
                                      local_rate, multiplier),
                 ToFloat(total_sales))

(***************************************************************************)
(* RetailerInputs: the dataclass and its validation.                       *)
(***************************************************************************)
NumericFields == <<"total_sales", "taxes", "shipping", "local_rate", "multiplier">>

\* Validation that checks each field's type and bound together, field by
\* field, instead of all the types first.
post_init_interleaved(self) ==
    IF ~IsNumeric(self.total_sales) THEN "TypeError"
    ELSE IF Lt(self.total_sales, Zero) THEN "ValueError"
    ELSE IF ~IsNumeric(self.taxes) THEN "TypeError"
    ELSE IF Lt(self.taxes, Zero) THEN "ValueError"
    ELSE IF ~IsNumeric(self.shipping) THEN "TypeError"
    ELSE IF Lt(self.shipping, Zero) THEN "ValueError"
    ELSE IF ~IsNumeric(self.local_rate) THEN "TypeError"
    ELSE IF ~(Le(Zero, self.local_rate) /\ Le(self.local_rate, One)) THEN "ValueError"
    ELSE IF ~IsNumeric(self.multiplier) THEN "TypeError"
    ELSE IF Le(self.multiplier, Zero) THEN "ValueError"
    ELSE "none"

\* Validation that lets a zero multiplier through.
post_init_zero_multiplier(self) ==
    IF \E i \in 1..Len(NumericFields) : ~IsNumeric(self[NumericFields[i]])
    THEN "TypeError"
    ELSE IF Lt(self.total_sales, Zero) THEN "ValueError"
    ELSE IF Lt(self.taxes, Zero) THEN "ValueError"
    ELSE IF Lt(self.shipping, Zero) THEN "ValueError"
    ELSE IF ~(Le(Zero, self.local_rate) /\ Le(self.local_rate, One)) THEN "ValueError"
    ELSE IF Lt(self.multiplier, Zero) THEN "ValueError"
    ELSE "none"

\* __post_init__: the exception it raises, "none" when it returns.
post_init(self) ==
    IF \E i \in 1..Len(NumericFields) : ~IsNumeric(self[NumericFields[i]])
    THEN "TypeError"
    ELSE IF Lt(self.total_sales, Zero) THEN "ValueError"
    ELSE IF Lt(self.taxes, Zero) THEN "ValueError"
    ELSE IF Lt(self.shipping, Zero) THEN "ValueError"
    ELSE IF ~(Le(Zero, self.local_rate) /\ Le(self.local_rate, One)) THEN "ValueError"
    ELSE IF Le(self.multiplier, Zero) THEN "ValueError"
    ELSE "none"

\* RetailerInputs(name=..., ...): the generated __init__ stores the
\* arguments and runs __post_init__; an exception leaves the caller with no
\* instance.  obj is the sequence of instances produced (none or one).
RetailerInputs(args) ==
    LET e == post_init(args)
    IN  [raised |-> e, obj |-> IF e = "none" THEN <<args>> ELSE <<>>]

(***************************************************************************)
(* summarize_retailer.                                                     *)
(***************************************************************************)
SummaryDict(i, base, li_dollars, li_share, share_digits) ==
    [name |-> i.name,
     total_sales |-> Round(i.total_sales, 2),
     taxes |-> Round(i.taxes, 2),
     shipping |-> Round(i.shipping, 2),
     retail_impact_base |-> Round(base, 2),
     local_rate |-> i.local_rate,
     multiplier |-> i.multiplier,
     local_impact_dollars |-> Round(li_dollars, 2),
     local_impact_share |-> IF li_share.raised = "none"
                            THEN Round(li_share.v, share_digits)
                            ELSE NotANumber]

\* A summary that rounds the share to 2 places, like the dollar figures.
summarize_retailer_share2(i) ==
    LET base == retail_impact_base(i.total_sales, i.taxes, i.shipping)
        li_dollars == local_impact_dollars(i.total_sales, i.taxes, i.shipping,
                                           i.local_rate, i.multiplier)
        li_share == IF Lt(Zero, i.total_sales)
                    THEN TrueDiv(li_dollars, i.total_sales)
                    ELSE Returned(Zero)
    IN  [raised |-> li_share.raised,
         v |-> SummaryDict(i, base, li_dollars, li_share, 2)]

summarize_retailer(i) ==
    LET base == retail_impact_base(i.total_sales, i.taxes, i.shipping)
        li_dollars == local_impact_dollars(i.total_sales, i.taxes, i.shipping,
                                           i.local_rate, i.multiplier)
        li_share == IF Lt(Zero, i.total_sales)
                    THEN TrueDiv(li_dollars, i.total_sales)
                    ELSE Returned(Zero)
    IN  [raised |-> li_share.raised,
         v |-> SummaryDict(i, base, li_dollars, li_share, 4)]

\* A summary that stores the rounded display figures back into its argument.
inputs_after_summarize_in_place(i) ==
    [i EXCEPT !.total_sales = Round(ToFloat(i.total_sales), 2),
              !.taxes = Round(ToFloat(i.taxes), 2),
              !.shipping = Round(ToFloat(i.shipping), 2)]

\* The instance after summarize_retailer(i) returns: the function only reads
\* its argument.
inputs_after_summarize(i) == i

(***************************************************************************)
(* Dashboard: which calculator is called, and how its result is read.      *)
(***************************************************************************)
candidate_calculator_names ==
    <<"calculate_local_impact", "calculate_retailer_impact",
      "compute_local_impact", "summarize_retailer", "local_impact_dollars">>

\* The callables that local_impact_calculator defines.
LicCallables ==
    {"RetailerInputs", "retail_impact_base", "local_impact_dollars",
     "local_impact_share", "summarize_retailer"}

\* The first candidate that getattr(lic, name, None) finds callable.
calculator_fn_name ==
    LET found == {i \in 1..Len(candidate_calculator_names) :
                     candidate_calculator_names[i] \in LicCallables}
        first == CHOOSE i \in found : \A j \in found : i <= j
    IN  candidate_calculator_names[first]

\* bool(x) of a number.
Truthy(x) == x.n # 0

compute_local_impact(ri) ==
    LET total_sales == IF Truthy(ri.total_sales) THEN ri.total_sales ELSE Zero
    IN  CASE calculator_fn_name = "summarize_retailer" ->
               LET summary == summarize_retailer(ri).v
                   local_impact == ToFloat(summary.local_impact_dollars)
                   share == ToFloat(summary.local_impact_share)
               IN  [local_impact |-> local_impact,
                    share |-> IF ~Truthy(share) /\ Truthy(total_sales)
                              THEN TrueDiv(local_impact, total_sales).v
                              ELSE share]
          [] calculator_fn_name = "local_impact_dollars" ->
               LET local_impact ==
                       ToFloat(local_impact_dollars(ri.total_sales, ri.taxes,
                                   ri.shipping, ri.local_rate, ri.multiplier))
               IN  [local_impact |-> local_impact,
                    share |-> IF Truthy(total_sales)
                              THEN TrueDiv(local_impact, total_sales).v
                              ELSE Zero]

calculate_metrics(ri) ==
    LET r == compute_local_impact(ri)
    IN  [name |-> ri.name, local_impact |-> r.local_impact, share |-> r.share]

(***************************************************************************)
(* Input values the specifications draw from.                              *)
(***************************************************************************)
TotalSalesValues ==
    {PyInt(k * 1000) : k \in 0..MaxSalesSteps} \cup {PyInt(-1), PyFloat(100000, 1)}
TaxesValues == {PyInt(-1), PyInt(0), PyFloat(8000, 1)}
ShippingValues == {PyInt(-1), PyInt(0), PyFloat(1, 8), PyInt(1999), PyFloat(5000, 1)}
LocalRateValues ==
    {PyFloat(-1, 20), PyInt(0), PyFloat(1, 20), PyFloat(7, 10), PyInt(1), PyFloat(3, 2)}
MultiplierValues == {PyInt(-1), PyInt(0), PyFloat(7, 5), PyFloat(17, 10)}

NumericArgs ==
    [total_sales : TotalSalesValues, taxes : TaxesValues, shipping : ShippingValues,
     local_rate : LocalRateValues, multiplier : MultiplierValues]

AnyArgs ==
    [name : {"FLX Goods"},
     total_sales : TotalSalesValues \cup {NotANumber},
     taxes : TaxesValues \cup {NotANumber},
     shipping : ShippingValues \cup {NotANumber},
     local_rate : LocalRateValues \cup {NotANumber},
     multiplier : MultiplierValues \cup {NotANumber}]

NoReturn == [fn |-> "none", raised |-> "none", v |-> NotANumber]

(***************************************************************************)
(* SpecFn: direct calls of the three calculator functions on numbers of    *)
(* any sign.                                                               *)
(***************************************************************************)
InitFn ==
    /\ pc = "idle"
    /\ call \in NumericArgs
    /\ ret = NoReturn
    /\ given = <<>>
    /\ inputs = <<>>
    /\ raised = "none"
    /\ summaries = <<>>
    /\ metrics = <<>>
    /\ widgets = <<>>
    /\ custom_names_raw = <<>>
    /\ retailer_inputs = <<>>

CallRetailImpactBase ==
    /\ pc = "idle"
    /\ ret' = [fn |-> "retail_impact_base", raised |-> "none",
               v |-> retail_impact_base(call.total_sales, call.taxes, call.shipping)]
    /\ pc' = "returned"
    /\ UNCHANGED <<call, given, inputs, raised, summaries, metrics,
                   widgets, custom_names_raw, retailer_inputs>>

CallLocalImpactDollars ==
    /\ pc = "idle"
    /\ ret' = [fn |-> "local_impact_dollars", raised |-> "none",
               v |-> local_impact_dollars(call.total_sales, call.taxes,
                         call.shipping, call.local_rate, call.multiplier)]
    /\ pc' = "returned"
    /\ UNCHANGED <<call, given, inputs, raised, summaries, metrics,
                   widgets, custom_names_raw, retailer_inputs>>

CallLocalImpactShare ==
    /\ pc = "idle"
    /\ LET r == local_impact_share(call.total_sales, call.taxes,
                    call.shipping, call.local_rate, call.multiplier)
       IN  ret' = [fn |-> "local_impact_share", raised |-> r.raised, v |-> r.v]
    /\ pc' = "returned"
    /\ UNCHANGED <<call, given, inputs, raised, summaries, metrics,
                   widgets, custom_names_raw, retailer_inputs>>

NextFn == CallRetailImpactBase \/ CallLocalImpactDollars \/ CallLocalImpactShare

SpecFn == InitFn /\ [][NextFn]_vars

(***************************************************************************)
(* Spec: one RetailerInputs construction, then summaries and the           *)
(* dashboard's metrics of the instance.                                    *)
(***************************************************************************)
Init ==
    /\ pc = "new"
    /\ given \in AnyArgs
    /\ inputs = <<>>
    /\ raised = "none"
    /\ summaries = <<>>
    /\ metrics = <<>>
    /\ call = <<>>
    /\ ret = NoReturn
    /\ widgets = <<>>
    /\ custom_names_raw = <<>>
    /\ retailer_inputs = <<>>

Construct ==
    /\ pc = "new"
    /\ LET r == RetailerInputs(given)
       IN  /\ raised' = r.raised
           /\ inputs' = r.obj
           /\ pc' = IF r.raised = "none" THEN "constructed" ELSE "failed"
    /\ UNCHANGED <<call, ret, given, summaries, metrics,
                   widgets, custom_names_raw, retailer_inputs>>

Summarize ==
    /\ pc = "constructed"
    /\ Len(summaries) < MaxCalls
    /\ summaries' = Append(summaries, summarize_retailer(inputs[1]))
    /\ inputs' = <<inputs_after_summarize(inputs[1])>>
    /\ UNCHANGED <<pc, call, ret, given, raised, metrics,
                   widgets, custom_names_raw, retailer_inputs>>

CalculateMetrics ==
    /\ pc = "constructed"
    /\ metrics = <<>>
    /\ metrics' = <<calculate_metrics(inputs[1])>>
    /\ UNCHANGED <<pc, call, ret, given, inputs, raised, summaries,
                   widgets, custom_names_raw, retailer_inputs>>

Next == Construct \/ Summarize \/ CalculateMetrics

Spec == Init /\ [][Next]_vars

(***************************************************************************)
(* Properties of the calculator functions (SpecFn).                        *)
(***************************************************************************)
\* The arguments of the call satisfy the bounds RetailerInputs enforces.
ValidCall ==
    /\ call.total_sales.n >= 0
    /\ call.taxes.n >= 0
    /\ call.shipping.n >= 0
    /\ call.local_rate.n >= 0
    /\ call.local_rate.n <= call.local_rate.d
    /\ call.multiplier.n > 0

\* total_sales - 0.5 * taxes - shipping of the call, written out.
CallBase ==
    PyFloat(2 * call.total_sales.n * call.taxes.d * call.shipping.d
              - call.taxes.n * call.total_sales.d * call.shipping.d
              - 2 * call.shipping.n * call.total_sales.d * call.taxes.d,
            2 * call.total_sales.d * call.taxes.d * call.shipping.d)

Scenario1 ==
    [total_sales |-> PyFloat(100000, 1), taxes |-> PyFloat(8000, 1),
     shipping |-> PyFloat(5000, 1), local_rate |-> PyFloat(7, 10),
     multiplier |-> PyFloat(17, 10)]

C3_ShareZeroSalesGuard ==
    ret.fn = "local_impact_share" =>
        /\ ret.raised = "none"
        /\ call.total_sales.n <= 0 => ret.v = Zero
        /\ call.total_sales.n > 0 =>
               LET dollars == local_impact_dollars(call.total_sales, call.taxes,
                                  call.shipping, call.local_rate, call.multiplier)
               IN  ret.v = PyFloat(dollars.n * call.total_sales.d,
                                   dollars.d * call.total_sales.n)

C3_Witness ==
    /\ ret.fn = "local_impact_share"
    /\ call.total_sales.n = 0
    /\ call.shipping.n > 0
    /\ call.local_rate.n > 0
    /\ ret.raised = "none"
    /\ ret.v = Zero

AllNumeric(a) ==
    \A i \in 1..Len(NumericFields) : a[NumericFields[i]].t \in {"int", "float"}

\* Some field breaks the bound the data model gives it.
OutOfBounds(a) ==
    \/ a.total_sales.n < 0
    \/ a.taxes.n < 0
    \/ a.shipping.n < 0
    \/ a.local_rate.n < 0
    \/ a.local_rate.n > a.local_rate.d
    \/ a.multiplier.n <= 0

\* C4: with five numeric fields, construction raises ValueError exactly
\* when a field breaks its bound; a failed construction yields no instance
\* and a successful one an instance holding the arguments unchanged.
C4_ValueErrorIffOutOfBounds ==
    (pc # "new" /\ AllNumeric(given)) =>
        /\ raised \in {"none", "ValueError"}
        /\ raised = "ValueError" <=> OutOfBounds(given)
        /\ raised # "none" => inputs = <<>>
        /\ raised = "none" => inputs = <<given>>

C4_Witness ==
    /\ pc = "failed"
    /\ AllNumeric(given)
    /\ given.multiplier = PyInt(0)
    /\ given.total_sales.n >= 0 /\ given.taxes.n >= 0 /\ given.shipping.n >= 0
    /\ given.local_rate.n >= 0 /\ given.local_rate.n <= given.local_rate.d
    /\ raised = "ValueError"
    /\ inputs = <<>>

\* C8: construction with any non-numeric field raises TypeError, whatever
\* the other fields hold, a bound-violating field included.
C8_TypeErrorFirst ==
    (pc # "new" /\ ~AllNumeric(given)) => (raised = "TypeError" /\ inputs = <<>>)

C8_Witness ==
    /\ pc = "failed"
    /\ given.total_sales = PyInt(-1)
    /\ given.taxes = NotANumber
    /\ raised = "TypeError"

\* C5: the summary of a valid instance holds local_impact_dollars and
\* retail_impact_base rounded to 2 places and local_impact_share rounded to
\* 4 places: share 0 for zero sales, dollars / total_sales otherwise.
C5_SummaryRounding ==
    \A k \in 1..Len(summaries) :
        LET i == inputs[1]
            s == summaries[k]
            dollars == local_impact_dollars(i.total_sales, i.taxes, i.shipping,
                                            i.local_rate, i.multiplier)
            share == local_impact_share(i.total_sales, i.taxes, i.shipping,
                                        i.local_rate, i.multiplier)
        IN  /\ s.raised = "none"
            /\ s.v.local_impact_dollars = Round(dollars, 2)
            /\ s.v.retail_impact_base =
                   Round(retail_impact_base(i.total_sales, i.taxes, i.shipping), 2)
            /\ s.v.local_impact_share = Round(share.v, 4)
            /\ i.total_sales.n = 0 => s.v.local_impact_share = Zero
            /\ i.total_sales.n > 0 =>
                   s.v.local_impact_share =
                       Round(PyFloat(dollars.n * i.total_sales.d,
                                     dollars.d * i.total_sales.n), 4)

C5_Witness ==
    /\ Len(summaries) >= 1
    /\ inputs[1].total_sales.n > 0
    /\ LET i == inputs[1]
           s == summaries[1].v
       IN  /\ s.local_impact_share #
                  local_impact_share(i.total_sales, i.taxes, i.shipping,
                                     i.local_rate, i.multiplier).v
           /\ s.local_impact_dollars #
                  local_impact_dollars(i.total_sales, i.taxes, i.shipping,
                                       i.local_rate, i.multiplier)
           /\ s.local_impact_share.d = 10000

C9_MetricsEqualSummary ==
    (pc = "constructed" /\ Len(metrics) = 1) =>
        LET s == summarize_retailer(inputs[1]).v
        IN  /\ Eq(metrics[1].share, s.local_impact_share)
            /\ Eq(metrics[1].local_impact, s.local_impact_dollars)

(***************************************************************************)
(* Dashboard page: widgets, the custom competitors text, and main().       *)
(***************************************************************************)
\* Characters the custom competitors text is typed from.
Chars == {"a", "b", ",", " "}

RawTexts == UNION {[1..k -> Chars] : k \in 0..MaxRawLen}

\* raw.split(","), on a sequence of characters.
RECURSIVE Split(_)
Split(s) ==
    IF \A i \in 1..Len(s) : s[i] # ","
    THEN <<s>>
    ELSE LET i == CHOOSE j \in 1..Len(s) :
                      s[j] = "," /\ \A h \in 1..(j - 1) : s[h] # ","
         IN  <<SubSeq(s, 1, i - 1)>> \o Split(SubSeq(s, i + 1, Len(s)))

\* name.strip()
RECURSIVE Strip(_)
Strip(s) ==
    IF s = <<>> THEN s
    ELSE IF s[1] = " " THEN Strip(Tail(s))
    ELSE IF s[Len(s)] = " " THEN Strip(SubSeq(s, 1, Len(s) - 1))
    ELSE s

\* The string a sequence of characters spells.
RECURSIVE Spell(_)
Spell(s) == IF s = <<>> THEN "" ELSE s[1] \o Spell(Tail(s))

\* [name.strip() for name in raw.split(",") if name.strip()]
custom_names(raw) ==
    LET parts == Split(raw)
        stripped == [i \in 1..Len(parts) |-> Strip(parts[i])]
        kept == SelectSeq(stripped, LAMBDA t : t # <<>>)
    IN  [i \in 1..Len(kept) |-> Spell(kept[i])]

base_configs ==
    << [name |-> "FLX Goods",
        defaults |-> [total_sales |-> PyFloat(60000, 1), taxes |-> PyFloat(4500, 1),
                      shipping |-> PyFloat(2000, 1), local_rate |-> PyFloat(9, 10)]],
       [name |-> "Amazon",
        defaults |-> [total_sales |-> PyFloat(150000, 1), taxes |-> PyFloat(12000, 1),
                      shipping |-> PyFloat(8000, 1), local_rate |-> PyFloat(1, 10)]],
       [name |-> "Walmart",
        defaults |-> [total_sales |-> PyFloat(120000, 1), taxes |-> PyFloat(9500, 1),
                      shipping |-> PyFloat(7000, 1), local_rate |-> PyFloat(1, 4)]],
       [name |-> "Wegmans",
        defaults |-> [total_sales |-> PyFloat(90000, 1), taxes |-> PyFloat(7200, 1),
                      shipping |-> PyFloat(5500, 1), local_rate |-> PyFloat(7, 20)]] >>

custom_defaults ==
    [total_sales |-> PyFloat(80000, 1), taxes |-> PyFloat(6000, 1),
     shipping |-> PyFloat(4000, 1), local_rate |-> PyFloat(1, 5)]

\* The configurations main() walks: the baseline, then one per custom name.
configs(raw) ==
    LET names == custom_names(raw)
    IN  base_configs \o
        [i \in 1..Len(names) |-> [name |-> names[i], defaults |-> custom_defaults]]

\* min_value of the three number inputs.
number_input_min == PyFloat(0, 1)

local_rate_slider == [min |-> PyFloat(0, 1), max |-> PyFloat(1, 1)]

\* A multiplier slider that starts at zero.
multiplier_slider_from_zero == [min |-> PyFloat(0, 1), max |-> PyFloat(2, 1)]

multiplier_slider == [min |-> PyFloat(13, 10), max |-> PyFloat(2, 1)]

multiplier_default == PyFloat(8, 5)

\* Where the user may have left a widget: at its default value or at an end
\* of its range (a number input has no upper end).
NumberInputPositions == {"default", "min"}
SliderPositions == {"default", "min", "max"}

number_input(position, default) ==
    IF position = "min" THEN number_input_min ELSE default

slider(position, range, default) ==
    CASE position = "min" -> range.min
      [] position = "max" -> range.max
      [] OTHER -> default

\* The widgets one retailer's section of the sidebar draws, with the values
\* they hold when every retailer's widgets are left at the positions pos.
retailer_widgets(pos, defaults) ==
    [total_sales |-> number_input(pos.total_sales, defaults.total_sales),
     taxes |-> number_input(pos.taxes, defaults.taxes),
     shipping |-> number_input(pos.shipping, defaults.shipping),
     local_rate |-> slider(pos.local_rate, local_rate_slider, defaults.local_rate),
     multiplier |-> slider(pos.multiplier, multiplier_slider, multiplier_default)]

Positions ==
    [total_sales : NumberInputPositions, taxes : NumberInputPositions,
     shipping : NumberInputPositions, local_rate : SliderPositions,
     multiplier : SliderPositions]

\* The names main() draws widgets for, in order.
RenderedNames(raw) == [i \in 1..Len(configs(raw)) |-> configs(raw)[i].name]

\* The widget values of a session: one set of widgets per retailer name.
session_widgets(raw, pos) ==
    [name \in {configs(raw)[i].name : i \in 1..Len(configs(raw))} |->
        retailer_widgets(pos,
            (CHOOSE c \in {configs(raw)[i] : i \in 1..Len(configs(raw))} :
                 c.name = name).defaults)]

\* get_retailer_inputs reads the retailer's five widgets and constructs the
\* record from what they return.
get_retailer_inputs(w, retailer_name) ==
    RetailerInputs(
        [name |-> retailer_name,
         total_sales |-> w[retailer_name].total_sales,
         taxes |-> w[retailer_name].taxes,
         shipping |-> w[retailer_name].shipping,
         local_rate |-> w[retailer_name].local_rate,
         multiplier |-> w[retailer_name].multiplier])

\* Constructing one record per name, in order, into the list acc: the first
\* exception ends the loop with the list as it was built so far.
RECURSIVE collect(_, _, _)
collect(w, names, acc) ==
    IF names = <<>> THEN [raised |-> "none", list |-> acc]
    ELSE LET r == get_retailer_inputs(w, Head(names))
         IN  IF r.raised # "none" THEN [raised |-> r.raised, list |-> acc]
             ELSE collect(w, Tail(names), acc \o r.obj)

(***************************************************************************)
(* SpecShell: one run of main() over the widget values of a session.       *)
(***************************************************************************)
\* A session: the custom competitors text and the positions of the
\* widgets.  Texts that name a retailer twice are left out: whether a
\* second set of identically labelled widgets may be drawn is decided by
\* the widget library, not by main().
InitShell ==
    /\ pc = "start"
    /\ custom_names_raw \in RawTexts
    /\ \A i, j \in 1..Len(RenderedNames(custom_names_raw)) :
           RenderedNames(custom_names_raw)[i] = RenderedNames(custom_names_raw)[j]
               => i = j
    /\ \E pos \in Positions : widgets = session_widgets(custom_names_raw, pos)
    /\ retailer_inputs = <<>>
    /\ metrics = <<>>
    /\ raised = "none"
    /\ call = <<>>
    /\ ret = NoReturn
    /\ given = <<>>
    /\ inputs = <<>>
    /\ summaries = <<>>

\* retailer_inputs = [get_retailer_inputs(...) for config in base_configs]
CollectBaseInputs ==
    /\ pc = "start"
    /\ LET r == collect(widgets, [i \in 1..Len(base_configs) |-> base_configs[i].name], <<>>)
       IN  /\ raised' = r.raised
           /\ retailer_inputs' = IF r.raised = "none" THEN r.list ELSE <<>>
           /\ pc' = IF r.raised = "none" THEN "base_collected" ELSE "error"
    /\ UNCHANGED <<call, ret, given, inputs, summaries, metrics,
                   widgets, custom_names_raw>>

\* for custom_name in custom_names: retailer_inputs.append(...)
CollectCustomInputs ==
    /\ pc = "base_collected"
    /\ LET r == collect(widgets, custom_names(custom_names_raw), retailer_inputs)
       IN  /\ raised' = r.raised
           /\ retailer_inputs' = r.list
           /\ pc' = IF r.raised = "none" THEN "collected" ELSE "error"
    /\ UNCHANGED <<call, ret, given, inputs, summaries, metrics,
                   widgets, custom_names_raw>>

\* metrics = [calculate_metrics(retailer) for retailer in retailer_inputs],
\* then the KPI cards and the chart are drawn from it.
ComputeMetrics ==
    /\ pc = "collected"
    /\ metrics' = [i \in 1..Len(retailer_inputs) |->
                      calculate_metrics(retailer_inputs[i])]
    /\ pc' = "rendered"
    /\ UNCHANGED <<call, ret, given, inputs, raised, summaries,
                   widgets, custom_names_raw, retailer_inputs>>

NextShell == CollectBaseInputs \/ CollectCustomInputs \/ ComputeMetrics

SpecShell == InitShell /\ [][NextShell]_vars

====
